---------------------------- MODULE Spec2Model ----------------------------
(***************************************************************************)
(* Model of the SSDL compiler drafts (src/python/compiler and              *)
(* src/python/compiler_types): Integer.parse, Version.parse and the        *)
(* parse_key constants of the section records.                             *)
(*                                                                         *)
(* A text (Python str) is a sequence of characters, each character a       *)
(* one-element string; "U+0663" stands for the single non-ASCII character  *)
(* ARABIC-INDIC DIGIT THREE.  A Python int is unbounded, so it is kept as  *)
(* a sign and a magnitude in decimal digits without leading zeros          *)
(* ([neg |-> FALSE, mag |-> <<0>>] is zero).                               *)
(***************************************************************************)
EXTENDS Integers, Sequences, FiniteSets, TLC

VARIABLES
    input,    \* the text handed to the operation
    op,       \* which operation runs: "none", "Integer.parse", "Version.parse", "chain", "parse_key"
    pc,       \* position inside the running operation
    rest,     \* the local `rest` (the remaining text)
    comps,    \* the components bound so far by Version.parse (major, minor, patch)
    arg,      \* the argument of the latest Integer.parse call
    res,      \* the outcome of the latest Integer.parse call
    outcome,  \* what the operation gave its caller: a return or a raise
    calls,    \* how many Integer.parse calls were made
    keylog    \* the parse_key() calls made and what each returned

vars == <<input, op, pc, rest, comps, arg, res, outcome, calls, keylog>>

---------------------------------------------------------------------------
(* Bounds of the model. *)

\* longest text drawn character by character
MaxLen == 4

\* most tokens in a text built from whole tokens
MaxTokens == 3

\* most parse_key() calls recorded
MaxKeyCalls == 2

---------------------------------------------------------------------------
(* Characters. *)

SPACE == " "

AsciiDigit == {"0", "1", "2", "3", "4", "5", "6", "7", "8", "9"}

\* str.isspace() characters that occur in the model's texts
Whitespace == {" ", "\t", "\n"}

\* the characters int() reads as a decimal digit: any Unicode Nd character
IsDigit(c) == c \in AsciiDigit \/ c = "U+0663"

DigitVal(c) ==
    CASE c = "0" -> 0 [] c = "1" -> 1 [] c = "2" -> 2 [] c = "3" -> 3
      [] c = "4" -> 4 [] c = "5" -> 5 [] c = "6" -> 6 [] c = "7" -> 7
      [] c = "8" -> 8 [] c = "9" -> 9 [] c = "U+0663" -> 3

DigitChar(d) ==
    CASE d = 0 -> "0" [] d = 1 -> "1" [] d = 2 -> "2" [] d = 3 -> "3"
      [] d = 4 -> "4" [] d = 5 -> "5" [] d = 6 -> "6" [] d = 7 -> "7"
      [] d = 8 -> "8" [] d = 9 -> "9"

---------------------------------------------------------------------------
(* Outcomes of a call: a returned pair, or a raised exception. *)

Return(v, r) == [kind |-> "return", value |-> v, rest |-> r]

Raise(exc, why, what) == [kind |-> "raise", exc |-> exc, why |-> why, what |-> what]

NoOutcome == [kind |-> "none"]

---------------------------------------------------------------------------
(* str.split(" ", 1): at most one split, at the first space. *)

RECURSIVE FirstSpaceFrom(_, _)
FirstSpaceFrom(s, i) ==
    IF i > Len(s) THEN 0
    ELSE IF s[i] = SPACE THEN i
    ELSE FirstSpaceFrom(s, i + 1)

\* a faulty split: the separator is left at the head of the remainder
split_KeepsSeparator(s) ==
    LET i == FirstSpaceFrom(s, 1)
    IN  IF i = 0 THEN <<s>>
        ELSE <<SubSeq(s, 1, i - 1), SubSeq(s, i, Len(s))>>

split(s) ==
    LET i == FirstSpaceFrom(s, 1)
    IN  IF i = 0 THEN <<s>>
        ELSE <<SubSeq(s, 1, i - 1), SubSeq(s, i + 1, Len(s))>>

---------------------------------------------------------------------------
(* int(val) on a str, base 10. *)

RECURSIVE LStrip(_)
LStrip(s) ==
    IF s # <<>> /\ Head(s) \in Whitespace THEN LStrip(Tail(s)) ELSE s

RECURSIVE RStrip(_)
RStrip(s) ==
    IF s # <<>> /\ s[Len(s)] \in Whitespace
    THEN RStrip(SubSeq(s, 1, Len(s) - 1)) ELSE s

strip(s) == RStrip(LStrip(s))

\* digits, with single underscores allowed only between two digits
DigitsWithUnderscores(body) ==
    /\ body # <<>>
    /\ \A i \in 1..Len(body) : IsDigit(body[i]) \/ body[i] = "_"
    /\ IsDigit(body[1])
    /\ IsDigit(body[Len(body)])
    /\ \A i \in 1..(Len(body) - 1) : ~(body[i] = "_" /\ body[i + 1] = "_")

RECURSIVE DropLeadingZeros(_)
DropLeadingZeros(ds) ==
    IF Len(ds) > 1 /\ Head(ds) = 0 THEN DropLeadingZeros(Tail(ds)) ELSE ds

RECURSIVE DigitsOf(_)
DigitsOf(body) ==
    IF body = <<>> THEN <<>>
    ELSE IF Head(body) = "_" THEN DigitsOf(Tail(body))
    ELSE <<DigitVal(Head(body))>> \o DigitsOf(Tail(body))

MkInt(neg, ds) ==
    LET mag == DropLeadingZeros(ds)
    IN  [neg |-> neg /\ mag # <<0>>, mag |-> mag]

int(val) ==
    LET s    == strip(val)
        sign == IF s # <<>> /\ Head(s) \in {"+", "-"} THEN Head(s) ELSE ""
        body == IF sign = "" THEN s ELSE Tail(s)
    IN  IF DigitsWithUnderscores(body)
        THEN [ok |-> TRUE, value |-> MkInt(sign = "-", DigitsOf(body))]
        ELSE [ok |-> FALSE]

\* str(n) of a Python int: the canonical decimal text
RECURSIVE DigitChars(_)
DigitChars(ds) ==
    IF ds = <<>> THEN <<>> ELSE <<DigitChar(Head(ds))>> \o DigitChars(Tail(ds))

str(n) == (IF n.neg THEN <<"-">> ELSE <<>>) \o DigitChars(n.mag)

---------------------------------------------------------------------------
(* Integer.parse:                                                          *)
(*     val, rest = input.split(" ", 1)                                     *)
(*     return cls(int(val)), rest                                          *)

\* a faulty Unpack: the two parts are taken by index, parts[0] and parts[1]
Unpack_ByIndex(parts) ==
    IF Len(parts) = 2
    THEN [ok |-> TRUE, val |-> parts[1], rest |-> parts[2]]
    ELSE [ok |-> FALSE,
          raised |-> Raise("IndexError", "list index out of range", <<>>)]

\* `val, rest = parts`: a list that is not of two elements cannot be unpacked
Unpack(parts) ==
    IF Len(parts) = 2
    THEN [ok |-> TRUE, val |-> parts[1], rest |-> parts[2]]
    ELSE [ok |-> FALSE,
          raised |-> Raise("ValueError", "not enough values to unpack", <<>>)]

IntLiteral(val) ==
    LET n == int(val)
    IN  IF n.ok THEN n
        ELSE [ok |-> FALSE,
              raised |-> Raise("ValueError", "invalid literal for int()", val)]

Integer_parse(text) ==
    LET u == Unpack(split(text))
    IN  IF ~u.ok THEN u.raised
        ELSE LET n == IntLiteral(u.val)
             IN  IF ~n.ok THEN n.raised
                 ELSE Return(n.value, u.rest)

---------------------------------------------------------------------------
(* Version: a frozen dataclass of three Integers. *)

Version(major, minor, patch) == [major |-> major, minor |-> minor, patch |-> patch]

---------------------------------------------------------------------------
(* parse_key() of the section records and of the root, in the two drafts. *)

Classes == {"Service", "SensorData", "Application", "Deployment", "SSDL"}

Drafts == {"compiler", "compiler_types"}

compiler_parse_key(cls) ==
    CASE cls = "Service"     -> ".service"
      [] cls = "SensorData"  -> ".data"
      [] cls = "Application" -> ".application"
      [] cls = "Deployment"  -> ".deployment"
      [] cls = "SSDL"        -> "ssdl"

\* a faulty compiler_types_parse_key: the Service key loses its dot
compiler_types_parse_key_NoDot(cls) ==
    CASE cls = "Service"     -> "service"
      [] cls = "SensorData"  -> ".data"
      [] cls = "Application" -> ".application"
      [] cls = "Deployment"  -> ".deployment"
      [] cls = "SSDL"        -> "ssdl"

compiler_types_parse_key(cls) ==
    CASE cls = "Service"     -> ".service"
      [] cls = "SensorData"  -> ".data"
      [] cls = "Application" -> ".application"
      [] cls = "Deployment"  -> ".deployment"
      [] cls = "SSDL"        -> "ssdl"

parse_key(draft, cls) ==
    IF draft = "compiler" THEN compiler_parse_key(cls)
    ELSE compiler_types_parse_key(cls)

---------------------------------------------------------------------------
(* The texts the operations are given. *)

\* characters of the texts drawn character by character
Alphabet == {"0", "1", "-", "+", "_", " ", "\t", ",", "a"}

Texts == UNION {[1..n -> Alphabet] : n \in 0..MaxLen}

\* 2^63 - 1, -2^63 and their neighbours, as Python ints: the code sets no
\* such bound; the texts hold them so that the 64-bit boundary is crossed
Int64Max == [neg |-> FALSE, mag |-> <<9,2,2,3,3,7,2,0,3,6,8,5,4,7,7,5,8,0,7>>]

Int64MaxPlus1 == [neg |-> FALSE, mag |-> <<9,2,2,3,3,7,2,0,3,6,8,5,4,7,7,5,8,0,8>>]

Int64Min == [neg |-> TRUE, mag |-> <<9,2,2,3,3,7,2,0,3,6,8,5,4,7,7,5,8,0,8>>]

Int64MinMinus1 == [neg |-> TRUE, mag |-> <<9,2,2,3,3,7,2,0,3,6,8,5,4,7,7,5,8,0,9>>]

\* whole tokens of the texts built token by token
Tokens ==
    { <<"1">>, <<"2">>, <<"3">>, <<"-", "1">>, <<>>, <<"1", "_", "0">>,
      <<"U+0663">>, <<"2", ",">>,
      str(Int64Max), str(Int64MaxPlus1), str(Int64Min), str(Int64MinMinus1) }

RECURSIVE Join(_)
Join(ts) ==
    IF ts = <<>> THEN <<>>
    ELSE IF Len(ts) = 1 THEN ts[1]
    ELSE ts[1] \o <<SPACE>> \o Join(Tail(ts))

\* tokens separated by one space, with or without a space after the last
TokenTexts ==
    { Join(ts) \o tail :
        ts \in UNION {[1..n -> Tokens] : n \in 1..MaxTokens},
        tail \in {<<>>, <<SPACE>>} }

Inputs == Texts \cup TokenTexts

---------------------------------------------------------------------------
(* The state machine: one operation is run on one text. *)

Init ==
    /\ input \in Inputs
    /\ op = "none"
    /\ pc = "start"
    /\ rest = <<>>
    /\ comps = <<>>
    /\ arg = <<>>
    /\ res = NoOutcome
    /\ outcome = NoOutcome
    /\ calls = 0
    /\ keylog = <<>>

\* Integer.parse(input), called directly
IntegerParse ==
    /\ pc = "start"
    /\ op' = "Integer.parse"
    /\ arg' = input
    /\ res' = Integer_parse(input)
    /\ outcome' = res'
    /\ calls' = calls + 1
    /\ pc' = "done"
    /\ UNCHANGED <<input, rest, comps, keylog>>

\* a faulty BindComponent: a component that cannot be parsed is defaulted
\* to 0 and the parse goes on
BindComponent_Defaulting(text, next) ==
    LET r == Integer_parse(text)
    IN  /\ arg' = text
        /\ res' = r
        /\ calls' = calls + 1
        /\ comps' = Append(comps, IF r.kind = "return" THEN r.value
                                  ELSE [neg |-> FALSE, mag |-> <<0>>])
        /\ rest' = IF r.kind = "return" THEN r.rest ELSE rest
        /\ pc' = next
        /\ UNCHANGED outcome

\* `name, rest = Integer.parse(text)` inside Version.parse: a raise leaves
\* Version.parse at once, a return binds the component and the remainder
BindComponent(text, next) ==
    LET r == Integer_parse(text)
    IN  /\ arg' = text
        /\ res' = r
        /\ calls' = calls + 1
        /\ IF r.kind = "return"
           THEN /\ comps' = Append(comps, r.value)
                /\ rest' = r.rest
                /\ pc' = next
                /\ UNCHANGED outcome
           ELSE /\ outcome' = r
                /\ pc' = "done"
                /\ UNCHANGED <<comps, rest>>

\* major, rest = Integer.parse(input)
VersionParseMajor ==
    /\ pc = "start"
    /\ op' = "Version.parse"
    /\ BindComponent(input, "minor")
    /\ UNCHANGED <<input, keylog>>

\* minor, rest = Integer.parse(rest)
VersionParseMinor ==
    /\ op = "Version.parse"
    /\ pc = "minor"
    /\ BindComponent(rest, "patch")
    /\ UNCHANGED <<input, op, keylog>>

\* patch, rest = Integer.parse(rest)
VersionParsePatch ==
    /\ op = "Version.parse"
    /\ pc = "patch"
    /\ BindComponent(rest, "return")
    /\ UNCHANGED <<input, op, keylog>>

\* return cls(major, minor, patch), rest
VersionParseReturn ==
    /\ op = "Version.parse"
    /\ pc = "return"
    /\ outcome' = Return(Version(comps[1], comps[2], comps[3]), rest)
    /\ pc' = "done"
    /\ UNCHANGED <<input, op, rest, comps, arg, res, calls, keylog>>

\* a caller that feeds each remainder to the next Integer.parse call, as
\* Version.parse does for its three components, until a call raises
ChainStep ==
    /\ \/ pc = "start"
       \/ op = "chain" /\ pc = "chain"
    /\ op' = "chain"
    /\ LET text == IF pc = "start" THEN input ELSE rest
           r    == Integer_parse(text)
       IN  /\ arg' = text
           /\ res' = r
           /\ calls' = calls + 1
           /\ IF r.kind = "return"
              THEN /\ rest' = r.rest
                   /\ pc' = "chain"
                   /\ UNCHANGED outcome
              ELSE /\ outcome' = r
                   /\ pc' = "done"
                   /\ UNCHANGED rest
    /\ UNCHANGED <<input, comps, keylog>>

Next ==
    \/ IntegerParse
    \/ VersionParseMajor
    \/ VersionParseMinor
    \/ VersionParsePatch
    \/ VersionParseReturn
    \/ ChainStep

Spec == Init /\ [][Next]_vars

---------------------------------------------------------------------------
(* The parse_key() calls: any record type of either draft, any number of   *)
(* times.                                                                  *)

InitKeys ==
    /\ input = <<>>
    /\ op = "parse_key"
    /\ pc = "start"
    /\ rest = <<>>
    /\ comps = <<>>
    /\ arg = <<>>
    /\ res = NoOutcome
    /\ outcome = NoOutcome
    /\ calls = 0
    /\ keylog = <<>>

CallParseKey(draft, cls) ==
    /\ Len(keylog) < MaxKeyCalls
    /\ keylog' = Append(keylog, [draft |-> draft, cls |-> cls, key |-> parse_key(draft, cls)])
    /\ UNCHANGED <<input, op, pc, rest, comps, arg, res, outcome, calls>>

NextKeys == \E draft \in Drafts, cls \in Classes : CallParseKey(draft, cls)

SpecKeys == InitKeys /\ [][NextKeys]_vars

---------------------------------------------------------------------------
(* Vocabulary of the properties. *)

\* largest magnitude of the integers whose canonical text is round-tripped
MaxN == 111

RECURSIVE NatDigits(_)
NatDigits(n) == IF n < 10 THEN <<n>> ELSE NatDigits(n \div 10) \o <<n % 10>>

\* the Python int of a small integer
IntOf(n) == [neg |-> n < 0, mag |-> NatDigits(IF n < 0 THEN -n ELSE n)]

\* a <= b for magnitudes without leading zeros
LeqDigits(a, b) ==
    \/ Len(a) < Len(b)
    \/ /\ Len(a) = Len(b)
       /\ \/ a = b
          \/ \E i \in 1..Len(a) :
                /\ a[i] < b[i]
                /\ \A j \in 1..(i - 1) : a[j] = b[j]

\* -2^63 <= v <= 2^63 - 1
InInt64(v) ==
    IF v.neg THEN LeqDigits(v.mag, Int64Min.mag) ELSE LeqDigits(v.mag, Int64Max.mag)

CharsOf(s) == {s[i] : i \in 1..Len(s)}

NumSpaces(s) == Cardinality({i \in 1..Len(s) : s[i] = SPACE})

\* the grammar of an integer token: optional sign, one or more ASCII digits
SignedAsciiDigits(tok) ==
    LET body == IF tok # <<>> /\ Head(tok) \in {"+", "-"} THEN Tail(tok) ELSE tok
    IN  /\ body # <<>>
        /\ CharsOf(body) \subseteq AsciiDigit

\* the integer a well-formed token denotes
Denoted(tok) ==
    LET body == IF Head(tok) \in {"+", "-"} THEN Tail(tok) ELSE tok
    IN  MkInt(Head(tok) = "-", [i \in 1..Len(body) |-> DigitVal(body[i])])

\* whitespace and the structural delimiters that end a token
Terminators == {" ", "\t", "\n", ",", ":", "]", "}"}

RECURSIVE FirstTerminatorFrom(_, _)
FirstTerminatorFrom(s, i) ==
    IF i > Len(s) THEN 0
    ELSE IF s[i] \in Terminators THEN i
    ELSE FirstTerminatorFrom(s, i + 1)

\* what the latest Integer.parse call consumed before the separator
ConsumedToken == SubSeq(arg, 1, Len(arg) - Len(res.rest) - 1)

IntegerParseDone == op = "Integer.parse" /\ pc = "done"

VersionParseDone == op = "Version.parse" /\ pc = "done"

OneTwoThree == <<"1", " ", "2", " ", "3">>

---------------------------------------------------------------------------
(* C1.  Version.parse("1 2 3") returns Version(1, 2, 3) with an empty      *)
(* remainder, after exactly three tokens.                                  *)
C1_VersionOneTwoThree ==
    (VersionParseDone /\ input = OneTwoThree)
        => /\ outcome = Return(Version(IntOf(1), IntOf(2), IntOf(3)), <<>>)
           /\ calls = 3

(* C2.  Round trip: Integer.parse of the canonical text of n, alone or     *)
(* followed by the one separator, returns n and an empty remainder.        *)
C2_IntegerRoundTrip ==
    \A n \in (-MaxN)..MaxN :
        (IntegerParseDone /\ input \in {str(IntOf(n)), str(IntOf(n)) \o <<SPACE>>})
            => outcome = Return(IntOf(n), <<>>)

(* C3.  Every Integer that Integer.parse returns is inside the 64-bit      *)
(* signed range (a token outside it makes the call fail).                  *)
C3_Int64Range ==
    (IntegerParseDone /\ outcome.kind = "return") => InInt64(outcome.value)

(* C4.  Integer.parse returns only when the consumed token is an optional  *)
(* sign followed by one or more ASCII digits.                              *)
C4_IntegerGrammar ==
    (IntegerParseDone /\ outcome.kind = "return") => SignedAsciiDigits(ConsumedToken)

(* C5.  A well-formed integer token followed by a whitespace character or  *)
(* a structural delimiter is parsed: Integer.parse returns its value and a *)
(* remainder that begins at or just after the terminator.                  *)
C5_TerminatedByDelimiter ==
    LET k == FirstTerminatorFrom(input, 1)
    IN  (IntegerParseDone /\ k > 1 /\ SignedAsciiDigits(SubSeq(input, 1, k - 1)))
            => /\ outcome.kind = "return"
               /\ outcome.value = Denoted(SubSeq(input, 1, k - 1))
               /\ outcome.rest \in {SubSeq(input, k, Len(input)),
                                    SubSeq(input, k + 1, Len(input))}

(* C6.  No component of a Version returned by Version.parse is negative.   *)
C6_VersionNonNegative ==
    (VersionParseDone /\ outcome.kind = "return")
        => /\ ~outcome.value.major.neg
           /\ ~outcome.value.minor.neg
           /\ ~outcome.value.patch.neg

---------------------------------------------------------------------------
IsText(t) == t \in Seq(CharsOf(input))

\* the two outcomes a parse may have
ReturnsPairOrRaisesValueError(o) ==
    \/ /\ o.kind = "return"
       /\ DOMAIN o = {"kind", "value", "rest"}
       /\ IsText(o.rest)
    \/ /\ o.kind = "raise"
       /\ o.exc = "ValueError"

(* C7.  Integer.parse and Version.parse end in one of two ways on every    *)
(* text: they return a pair (value, remaining text) or they raise          *)
(* ValueError, and so does every Integer.parse call they make.             *)
C7_ReturnOrValueError ==
    /\ (IntegerParseDone \/ VersionParseDone) => ReturnsPairOrRaisesValueError(outcome)
    /\ calls > 0 => ReturnsPairOrRaisesValueError(res)

C7_Witness ==
    /\ VersionParseDone
    /\ outcome.kind = "raise"
    /\ outcome.why = "not enough values to unpack"
    /\ calls = 3

(* C8.  parse_key() is a stable, unique key: two calls return the same key *)
(* exactly when they are made on the same record type, whichever draft     *)
(* (compiler or compiler_types) each call is made on; so the four section  *)
(* keys and the root key are pairwise distinct and the drafts agree.       *)
C8_KeysStableUnique ==
    \A i, j \in 1..Len(keylog) :
        (keylog[i].cls = keylog[j].cls) <=> (keylog[i].key = keylog[j].key)

C8_Witness ==
    /\ Len(keylog) = 2
    /\ keylog[1].draft = "compiler"
    /\ keylog[2].draft = "compiler_types"
    /\ keylog[1].cls = "Service"
    /\ keylog[2].cls = "Service"

\* what a left-to-right, fail-fast Version.parse gives on a text
FailFastVersion(text) ==
    LET r1 == Integer_parse(text)
    IN  IF r1.kind = "raise" THEN [out |-> r1, parsed |-> 1]
        ELSE LET r2 == Integer_parse(r1.rest)
             IN  IF r2.kind = "raise" THEN [out |-> r2, parsed |-> 2]
                 ELSE LET r3 == Integer_parse(r2.rest)
                      IN  IF r3.kind = "raise" THEN [out |-> r3, parsed |-> 3]
                          ELSE [out |-> Return(Version(r1.value, r2.value, r3.value), r3.rest),
                                parsed |-> 3]

(* C9.  Version.parse is fail-fast and left-to-right: major is parsed from *)
(* the text, minor from major's remainder, patch from minor's; the first   *)
(* component that Integer.parse rejects ends the parse with that call's    *)
(* error, no later component is parsed, and a Version is returned only     *)
(* with all three components.                                              *)
C9_VersionFailFast ==
    op = "Version.parse" =>
        /\ calls <= 3
        /\ outcome.kind = "raise" => (outcome = res /\ Len(comps) = calls - 1)
        /\ outcome.kind = "return" => (Len(comps) = 3 /\ calls = 3)
        /\ pc = "done" =>
              /\ outcome = FailFastVersion(input).out
              /\ calls = FailFastVersion(input).parsed
              /\ ~ENABLED Next

C9_Witness ==
    /\ VersionParseDone
    /\ outcome.kind = "raise"
    /\ outcome.why = "invalid literal for int()"
    /\ calls = 2
    /\ Len(comps) = 1

(* C10.  Cursor progress: when Integer.parse(arg) returns (v, rest), arg   *)
(* is token + one space + rest, the token holds no space and v is its      *)
(* integer value, so rest is strictly shorter than arg; a chain of calls,  *)
(* each fed the previous remainder, uses up one space of the original text *)
(* per success and ends in a ValueError after at most as many successes as *)
(* the text has spaces.                                                    *)
C10_CursorProgress ==
    /\ res.kind = "return" =>
          /\ Len(res.rest) < Len(arg)
          /\ arg = ConsumedToken \o <<SPACE>> \o res.rest
          /\ SPACE \notin CharsOf(ConsumedToken)
          /\ int(ConsumedToken).ok
          /\ res.value = int(ConsumedToken).value
    /\ (op = "chain" /\ pc = "chain") =>
          /\ calls + NumSpaces(rest) = NumSpaces(input)
          /\ Len(rest) + 2 * calls <= Len(input)
    /\ (op = "chain" /\ pc = "done") =>
          /\ outcome.kind = "raise"
          /\ outcome.exc = "ValueError"
          /\ calls - 1 <= NumSpaces(input)

C10_Witness ==
    /\ op = "chain"
    /\ pc = "done"
    /\ calls = 4
    /\ NumSpaces(input) = 3

=============================================================================
